---------------------------- MODULE Spec2Model ----------------------------
(***************************************************************************)
(* vuepress-plugin-meilisearch-indexer (src/src/index.ts): the page        *)
(* segmenter generatePageDocuments, the identity generator                 *)
(* generateObjectID, and the build pass generateMeiliSearchIndex with      *)
(* deployToMeilisearch.                                                    *)
(*                                                                         *)
(* Spec: one behaviour is one call of generatePageDocuments.  The parsed   *)
(* markup is consumed as a token stream in document order: one token per   *)
(* node, and an end token where the forEach over an element's childNodes   *)
(* returns.                                                                *)
(* IdSpec: calls of generateObjectID on arguments drawn from bounded sets. *)
(* BuildSpec: one behaviour is one call of generateMeiliSearchIndex; it    *)
(* segments each included page with the actions of Spec.                   *)
(*                                                                         *)
(* A JavaScript string is a sequence of one-character strings; tag names,  *)
(* class names and the parts of a url are single elements of it.           *)
(***************************************************************************)
EXTENDS Integers, Sequences, FiniteSets, TLC

VARIABLES
    page,               \* the Page argument (title, data.excerpt, lang, path, frontmatter)
    indexContent,       \* the indexContent argument
    pc,                 \* "walk": in nodes.forEach; "done": returned; "threw": raised
    walked,             \* the tokens of the markup consumed so far
    open,               \* preserveSpace of each render call whose children are being visited
    shouldIndexContent, \* index.ts:302
    currentHeading,     \* index.ts:303, the active heading frames
    indexedText,        \* index.ts:304, the accumulator
    position,           \* index.ts:305
    documents,          \* index.ts:298
    pending,            \* history: the text nodes visited since indexedText was cleared
    emitted,            \* history: for each document, the text nodes that went into it
    returned,           \* the value returned (<<>> until pc = "done")
    idArgs,             \* generateObjectID: the arguments drawn
    idOut,              \* generateObjectID: the results of the calls made
    options,            \* the options argument: indexOutputFile, filter, baseUrl, deploy
    env,                \* process.env: DEPLOY, MEILIDEPLOY, MEILISEARCH_API_KEY
    app,                \* app.pages
    phase,              \* the place reached in generateMeiliSearchIndex and deployToMeilisearch
    pageIdx,            \* the pages app.pages.forEach is done with
    allDocuments,       \* documents of generateMeiliSearchIndex, index.ts:171
    file,               \* the index file: <<>> while there is none, else <<its documents>>
    remote,             \* the documents of the Meilisearch index
    remoteBefore,       \* history: the documents of the index before the build
    trace,              \* history: the remote operations issued
    reported,           \* history: what console.error was given
    segmented           \* history: the pages handed to generatePageDocuments, and its results

\* The locals of generatePageDocuments
segmenter == <<page, indexContent, pc, walked, open, shouldIndexContent,
               currentHeading, indexedText, position, documents, pending, emitted,
               returned>>

\* The calls of generateObjectID
identity == <<idArgs, idOut>>

\* generateMeiliSearchIndex and deployToMeilisearch, and what they act on
build == <<options, env, app, remoteBefore, phase, pageIdx, allDocuments, file, remote, trace,
           reported, segmented>>

vars == <<segmenter, identity, build>>

-----------------------------------------------------------------------------
(* Values *)

\* null and undefined: one-element sequences whose element is no character, so
\* that no string equals them.
Null == <<"null">>
Undefined == <<"undefined">>

\* The number of tokens of a markup drawn freely from Alphabet.
MaxTokens == 3

SP == " "
NL == "\n"

\* JavaScript's \s and the set String.prototype.trim strips.
IsSpace(c) == c \in {SP, NL, "\t"}

\* A string-valued expression is truthy unless it is null, undefined or ''.
Truthy(v) == v \notin {Null, Undefined, <<>>}

\* v || null
OrNull(v) == IF Truthy(v) THEN v ELSE Null

-----------------------------------------------------------------------------
(* String functions *)

RECURSIVE CollapseSpace(_)
\* s.replace(/\s+/gu, ' ') and s.replace(/[\n\s]+/gu, ' '): \n is in \s.
CollapseSpace(s) ==
    IF s = <<>> THEN <<>>
    ELSE LET r == CollapseSpace(Tail(s))
         IN  IF IsSpace(Head(s))
             THEN IF r # <<>> /\ Head(r) = SP THEN r ELSE <<SP>> \o r
             ELSE <<Head(s)>> \o r

RECURSIVE TrimStart(_)
TrimStart(s) ==
    IF s # <<>> /\ IsSpace(Head(s)) THEN TrimStart(Tail(s)) ELSE s

RECURSIVE TrimEnd(_)
TrimEnd(s) ==
    IF s # <<>> /\ IsSpace(s[Len(s)]) THEN TrimEnd(SubSeq(s, 1, Len(s) - 1)) ELSE s

\* String.prototype.trim
Trim(s) == TrimEnd(TrimStart(s))

NormalizeNoTrim(s) == CollapseSpace(s)

\* index.ts:317
NormalizeContent(s) == Trim(CollapseSpace(s))

RECURSIVE JoinSpace(_)
\* Array.prototype.join(' ')
JoinSpace(parts) ==
    IF parts = <<>> THEN <<>>
    ELSE IF Len(parts) = 1 THEN parts[1]
    ELSE parts[1] \o <<SP>> \o JoinSpace(Tail(parts))

-----------------------------------------------------------------------------
(* Nodes and tokens *)

Node(type, name, id, class, data, children) ==
    [type |-> type, name |-> name, id |-> id, class |-> class,
     data |-> data, children |-> children]

Tag(name, id, class, children) == Node("tag", name, id, class, <<>>, children)
TextNode(data) == Node("text", "", Undefined, "", data, <<>>)
CommentNode(data) == Node("comment", "", Undefined, "", data, <<>>)
\* The end of an element's childNodes: render returns to the parent's forEach.
EndTag == Node("end", "", Undefined, "", <<>>, <<>>)

\* index.ts:250
HEADING_TAGS == {"h1", "h2", "h3", "h4", "h5", "h6"}

\* index.ts:251-252
CONTENT_BLOCK_TAGS ==
    {"header", "nav", "section", "div", "dd", "dl", "dt", "figcaption", "figure",
     "picture", "hr", "li", "main", "ol", "p", "ul", "caption", "table", "thead",
     "tbody", "tfoot", "th", "tr", "td", "datalist", "fieldset", "form", "legend",
     "optgroup", "option", "select", "details", "dialog", "menu", "menuitem",
     "summary", "blockquote", "pre"}

\* index.ts:253-254
CONTENT_INLINE_TAGS ==
    {"routelink", "routerlink", "a", "b", "abbr", "bdi", "bdo", "cite", "code",
     "dfn", "em", "i", "kbd", "mark", "q", "rp", "rt", "ruby", "s", "samp",
     "small", "span", "strong", "sub", "sup", "time", "u", "var", "wbr", "del",
     "ins", "button", "label", "legend", "meter", "optgroup", "option", "output",
     "progress", "select"}

\* parseInt(tagName.substring(1), 10), index.ts:382
HeadingLevel(name) ==
    CASE name = "h1" -> 1 [] name = "h2" -> 2 [] name = "h3" -> 3
      [] name = "h4" -> 4 [] name = "h5" -> 5 [] name = "h6" -> 6

HeadingName(level) ==
    CASE level = 1 -> "h1" [] level = 2 -> "h2" [] level = 3 -> "h3"
      [] level = 4 -> "h4" [] level = 5 -> "h5" [] level = 6 -> "h6"

MoreText == <<"m", "o", "r", "e">>

\* index.ts:256-257
IsExcerptMarker(node) == node.type = "comment" /\ Trim(node.data) = MoreText

-----------------------------------------------------------------------------
(* renderHeader, index.ts:264-279 *)

IsHeaderAnchor(node) ==
    /\ Len(node.children) = 1
    /\ node.children[1].type = "tag"
    /\ node.children[1].name = "a"
    /\ node.children[1].class = "header-anchor"

\* index.ts:271 reads children[0].children[0].children: a TypeError when the
\* anchor has no child, and map() of undefined (index.ts:273-274) when its first
\* child is a text or comment node, which has no children property.
RenderHeaderThrows(node) ==
    /\ IsHeaderAnchor(node)
    /\ \/ node.children[1].children = <<>>
       \/ node.children[1].children[1].type # "tag"

HeaderChildren(node) ==
    IF IsHeaderAnchor(node) THEN node.children[1].children[1].children
    ELSE node.children

\* .map(text ? data : null).filter(Boolean)
TextParts(kids) ==
    LET keep == SelectSeq(kids, LAMBDA k : k.type = "text" /\ k.data # <<>>)
    IN  [i \in 1..Len(keep) |-> keep[i].data]

RenderHeader(node) == Trim(CollapseSpace(JoinSpace(TextParts(HeaderChildren(node)))))

-----------------------------------------------------------------------------
(* addTextToIndex, index.ts:315-371 *)

Frame(level, text, id) == [level |-> level, text |-> text, id |-> id]

\* currentHeading.find(h => h.level === i); where find yields undefined, a frame
\* whose text is undefined stands for it (heading?.text is then undefined).
FindHeading(i) ==
    LET hits == {k \in 1..Len(currentHeading) : currentHeading[k].level = i}
    IN  IF hits = {} THEN [level |-> i, text |-> Undefined, id |-> Undefined]
        ELSE currentHeading[CHOOSE k \in hits : \A j \in hits : k <= j]

\* heading?.text || null, index.ts:340
HierarchyText(i) == OrNull(FindHeading(i).text)

\* index.ts:338-344
Hierarchy == [i \in 0..6 |-> HierarchyText(i)]
HierarchyRadio == [i \in 0..5 |-> HierarchyText(i)]

MaxOf(S) == CHOOSE m \in S : \A x \in S : x <= m

\* index.ts:346-347
CurrentLevelByCount == Len(currentHeading) - 1
CurrentLevel ==
    IF Len(currentHeading) > 0
    THEN MaxOf({currentHeading[k].level : k \in 1..Len(currentHeading)})
    ELSE 0

\* index.ts:349-351: filter(h => h.id !== null), sort by level descending (stable:
\* of equal levels the first in array order), [0]?.id || null.
CurrentAnchor ==
    LET kept == {k \in 1..Len(currentHeading) : currentHeading[k].id # Null}
        top  == CHOOSE k \in kept :
                  \A j \in kept :
                     \/ currentHeading[j].level < currentHeading[k].level
                     \/ currentHeading[j].level = currentHeading[k].level /\ k <= j
    IN  IF kept = {} THEN Null ELSE OrNull(currentHeading[top].id)

\* `${baseUrl}${page.path}`, index.ts:313
PageUrl == page.baseUrl \o page.path

Digit(n) ==
    CASE n = 0 -> "0" [] n = 1 -> "1" [] n = 2 -> "2" [] n = 3 -> "3" [] n = 4 -> "4"
      [] n = 5 -> "5" [] n = 6 -> "6" [] n = 7 -> "7" [] n = 8 -> "8" [] n = 9 -> "9"

RECURSIVE Decimal(_)
\* `${position}`: the decimal digits of a non-negative integer
Decimal(n) == IF n < 10 THEN <<Digit(n)>> ELSE Decimal(n \div 10) \o <<Digit(n % 10)>>

\* index.ts:285
IdSourceNoPosition(url, anchor, pos) ==
    IF Truthy(anchor) THEN url \o <<"#">> \o anchor ELSE url
IdSource(url, anchor, pos) ==
    IF Truthy(anchor) THEN url \o <<"#">> \o anchor \o <<"-">> \o Decimal(pos) ELSE url

\* createHash('sha1').update(s).digest('hex'), index.ts:286: the digest stands
\* for the string digested, one digest per string.
Sha1(s) == <<"sha1", s>>

\* index.ts:284-287
GenerateObjectID(url, anchor, pos) == Sha1(IdSource(url, anchor, pos))

\* lang || 'en'
DocLang == IF Truthy(page.lang) THEN page.lang ELSE <<"e", "n">>

\* typeof page.frontmatter.page_rank === 'number' ? page.frontmatter.page_rank : 0
DocRank == IF page.page_rank.type = "number" THEN page.page_rank.value ELSE 0

\* index.ts:354-365
NewDocument ==
    [content |-> NormalizeContent(indexedText),
     url |-> PageUrl,
     anchor |-> CurrentAnchor,
     objectID |-> GenerateObjectID(PageUrl, CurrentAnchor, position),
     lang |-> DocLang,
     level |-> CurrentLevel,
     position |-> position,
     hierarchy |-> Hierarchy,
     hierarchy_radio |-> HierarchyRadio,
     page_rank |-> DocRank]

\* The effect of addTextToIndex, as the values it leaves.
AddTextToIndexKeepsPosition ==
    IF shouldIndexContent
    THEN [documents |-> Append(documents, NewDocument),
          indexedText |-> <<>>,
          position |-> position]
    ELSE [documents |-> documents,
          indexedText |-> indexedText,
          position |-> position]
AddTextToIndex ==
    IF shouldIndexContent
    THEN [documents |-> Append(documents, NewDocument),
               indexedText |-> <<>>,
          position |-> position + 1]
    ELSE [documents |-> documents,
          indexedText |-> indexedText,
          position |-> position]

-----------------------------------------------------------------------------
(* Inputs *)

T == <<"T">>
A == <<"A">>
B == <<"B">>
\* A run of several newlines, alone and between two letters.
NL2 == <<NL, NL>>
ANB == <<"A", NL, NL, "B">>

\* A page with a title, a language and a numeric rank, and one with none of them
\* (vuepress gives an untitled page the title ''); each with and without an excerpt.
Pages ==
    { [title |-> T, excerpt |-> e, lang |-> <<"z", "h">>, path |-> <<"/guide.html">>,
       baseUrl |-> <<>>, page_rank |-> [type |-> "number", value |-> 5]] : e \in {<<>>, <<"e">>} }
    \cup
    { [title |-> <<>>, excerpt |-> e, lang |-> <<>>, path |-> <<"/">>, baseUrl |-> <<"https://s">>,
       page_rank |-> [type |-> "undefined", value |-> 0]] : e \in {<<>>, <<"e">>} }

\* Boolean(data.excerpt?.length), index.ts:300
HasExcerpt == Len(page.excerpt) > 0

\* Headings as markdown renders them: bare text and no id; and vuepress's
\* <hN id="g"><a class="header-anchor"><span>G</span></a></hN>.
PlainHeading(level) == Tag(HeadingName(level), Undefined, "", <<TextNode(<<"H">>)>>)
AnchorHeading(level, id, text) ==
    Tag(HeadingName(level), id, "",
        << Tag("a", Undefined, "header-anchor",
               << Tag("span", Undefined, "", <<TextNode(text)>>) >>) >>)
\* <hN id="c"><code>x</code></hN>: no text child of its own.
CodeHeading(level) ==
    Tag(HeadingName(level), <<"c">>, "",
        << Tag("code", Undefined, "", <<TextNode(<<"x">>)>>) >>)
\* <hN id="b"><a class="header-anchor">B</a></hN>: the anchor wraps the text itself.
BareAnchorHeading(level) ==
    Tag(HeadingName(level), <<"b">>, "",
        << Tag("a", Undefined, "header-anchor", <<TextNode(B)>>) >>)

Elem(name) == Tag(name, Undefined, "", <<>>)
MoreComment == CommentNode(<<SP>> \o MoreText \o <<SP>>)
TightMoreComment == CommentNode(MoreText)
OtherComment == CommentNode(<<"x">>)

\* The tokens a markup of at most MaxTokens tokens is made of: a heading of
\* every level without id, headings with id that can stand above or beside them,
\* a block, a pre block, an inline element, text, whitespace-only text and the
\* marker.  The examples add the other shapes.
Alphabet ==
    {PlainHeading(l) : l \in 1..6} \cup {AnchorHeading(l, <<"g">>, <<"G">>) : l \in 1..2}
    \cup {Elem("p"), Elem("pre"), Elem("code"), EndTag}
    \cup {TextNode(A), TextNode(NL2)}
    \cup {MoreComment}

\* Longer markups: the pages the documentation names.
\*   <p>A</p><!--more--><p>B</p>
ExcerptExample ==
    <<Elem("p"), TextNode(A), EndTag, TightMoreComment, Elem("p"), TextNode(B), EndTag>>
\*   <pre>\n\n<code>A\n\nB</code>\n\n</pre><p>A\n\nB</p>
PreExample ==
    <<Elem("pre"), TextNode(NL2), Elem("code"), TextNode(ANB), EndTag, TextNode(NL2), EndTag,
      Elem("p"), TextNode(ANB), EndTag>>
\*   <h1 id="g">..G..</h1><h2>H</h2><p>A</p><h2 id="c"><code>x</code></h2><p>B</p>
HeadingExample ==
    <<AnchorHeading(1, <<"g">>, <<"G">>), PlainHeading(2), Elem("p"), TextNode(A), EndTag,
      CodeHeading(2), Elem("p"), TextNode(B), EndTag>>
\*   <p>A</p><h2 id="b"><a class="header-anchor">B</a></h2>
BareAnchorExample ==
    <<Elem("p"), TextNode(A), EndTag, BareAnchorHeading(2)>>

\*   <!--x--><img><h4 id="g">..G..</h4><h6>H</h6>
\*   <div><code>A</code>\n\n<code>A\n\nB</code></div>
MixedExample ==
    <<OtherComment, Elem("img"), AnchorHeading(4, <<"g">>, <<"G">>), PlainHeading(6),
      Elem("div"), Elem("code"), TextNode(A), EndTag, TextNode(NL2),
      Elem("code"), TextNode(ANB), EndTag, EndTag>>

Examples == {ExcerptExample, PreExample, HeadingExample, BareAnchorExample, MixedExample}

IsPrefix(s, t) == Len(s) <= Len(t) /\ SubSeq(t, 1, Len(s)) = s

\* The markups walked: every token stream of at most MaxTokens tokens over
\* Alphabet, and the examples.  Tokens is the set of tokens that may come next.
Tokens ==
    IF pc # "walk" THEN {}
    ELSE (IF Len(walked) < MaxTokens THEN Alphabet ELSE {})
         \cup {e[Len(walked) + 1] :
                 e \in {x \in Examples : Len(x) > Len(walked) /\ IsPrefix(walked, x)}}

-----------------------------------------------------------------------------
(* generatePageDocuments, index.ts:292-470 *)

\* No call of generateObjectID is being looked at.
IdIdle == idArgs = <<>> /\ idOut = <<>>

\* No build pass is running.
BuildIdle ==
    /\ options = <<>>
    /\ env = <<>>
    /\ app = <<>>
    /\ phase = "idle"
    /\ pageIdx = 0
    /\ allDocuments = <<>>
    /\ file = <<>>
    /\ remote = {}
    /\ remoteBefore = {}
    /\ trace = <<>>
    /\ reported = <<>>
    /\ segmented = <<>>

\* index.ts:297-313
Init ==
    /\ IdIdle
    /\ BuildIdle
    /\ page \in Pages
    /\ indexContent \in BOOLEAN
    /\ pc = "walk"
    /\ walked = <<>>
    /\ open = <<>>
    /\ shouldIndexContent = (HasExcerpt \/ indexContent)
    /\ currentHeading = <<Frame(0, page.title, Null)>>
    /\ indexedText = <<>>
    /\ position = 0
    /\ documents = <<>>
    /\ pending = <<>>
    /\ emitted = <<>>
    /\ returned = <<>>

\* History of a call of addTextToIndex: what went into the document it appended.
RecordFlush ==
    /\ emitted' = IF shouldIndexContent THEN Append(emitted, pending) ELSE emitted
    /\ pending' = IF shouldIndexContent THEN <<>> ELSE pending

\* The preserveSpace argument of the render call for the next node.
PreserveSpace == IF open = <<>> THEN FALSE ELSE open[Len(open)]

Visit(tok) ==
    /\ pc = "walk"
    /\ walked' = Append(walked, tok)

\* index.ts:384-390
ObserveHeadingKeepAll(level, text, id) == Append(currentHeading, Frame(level, text, id))
ObserveHeadingKeepDeeper(level, text, id) ==
    Append(SelectSeq(currentHeading, LAMBDA h : h.level > level), Frame(level, text, id))
ObserveHeadingKeepEqual(level, text, id) ==
    Append(SelectSeq(currentHeading, LAMBDA h : h.level <= level), Frame(level, text, id))
ObserveHeading(level, text, id) ==
    Append(SelectSeq(currentHeading, LAMBDA h : h.level < level), Frame(level, text, id))

\* render on a heading element, index.ts:377-391
VisitHeading(tok) ==
    /\ tok.type = "tag" /\ tok.name \in HEADING_TAGS
    /\ Visit(tok)
    /\ IF RenderHeaderThrows(tok)
       THEN /\ pc' = "threw"
            /\ UNCHANGED <<currentHeading, documents, indexedText, position, pending, emitted>>
       ELSE /\ pc' = pc
            /\ documents' = AddTextToIndex.documents
            /\ RecordFlush
            /\ indexedText' = AddTextToIndex.indexedText
            /\ position' = AddTextToIndex.position
            /\ currentHeading' = ObserveHeading(HeadingLevel(tok.name), RenderHeader(tok), tok.id)
    /\ UNCHANGED <<page, indexContent, open, shouldIndexContent, returned>>

\* The preserveSpace handed to a block's children, index.ts:395
BlockPreserve(name) == PreserveSpace \/ name = "pre"

\* render on a block element, index.ts:392-397: the flush, then into its children
VisitBlock(tok) ==
    /\ tok.type = "tag" /\ tok.name \notin HEADING_TAGS /\ tok.name \in CONTENT_BLOCK_TAGS
    /\ Visit(tok)
    /\ documents' = AddTextToIndex.documents
    /\ RecordFlush
    /\ indexedText' = AddTextToIndex.indexedText
    /\ position' = AddTextToIndex.position
    /\ open' = Append(open, BlockPreserve(tok.name))
    /\ UNCHANGED <<page, indexContent, pc, shouldIndexContent, currentHeading, returned>>

\* render on an inline element, index.ts:398-402
VisitInlineFlushes(tok) ==
    /\ tok.type = "tag"
    /\ tok.name \notin HEADING_TAGS /\ tok.name \notin CONTENT_BLOCK_TAGS
    /\ tok.name \in CONTENT_INLINE_TAGS
    /\ Visit(tok)
    /\ documents' = AddTextToIndex.documents
    /\ RecordFlush
    /\ indexedText' = AddTextToIndex.indexedText
    /\ position' = AddTextToIndex.position
    /\ open' = Append(open, PreserveSpace)
    /\ UNCHANGED <<page, indexContent, pc, shouldIndexContent, currentHeading, returned>>
VisitInline(tok) ==
    /\ tok.type = "tag"
    /\ tok.name \notin HEADING_TAGS /\ tok.name \notin CONTENT_BLOCK_TAGS
    /\ tok.name \in CONTENT_INLINE_TAGS
    /\ Visit(tok)
    /\ open' = Append(open, PreserveSpace)
    /\ UNCHANGED <<page, indexContent, pc, shouldIndexContent, currentHeading,
                   indexedText, position, documents, pending, emitted, returned>>

\* render on any other element, index.ts:374-403: nothing, its children unvisited
VisitOther(tok) ==
    /\ tok.type = "tag"
    /\ tok.name \notin HEADING_TAGS \cup CONTENT_BLOCK_TAGS \cup CONTENT_INLINE_TAGS
    /\ Visit(tok)
    /\ UNCHANGED <<page, indexContent, pc, open, shouldIndexContent, currentHeading,
                   indexedText, position, documents, pending, emitted, returned>>

\* The forEach over an element's childNodes ends, index.ts:394-396, 399-401
Leave(tok) ==
    /\ tok.type = "end"
    /\ open # <<>>
    /\ Visit(tok)
    /\ open' = SubSeq(open, 1, Len(open) - 1)
    /\ UNCHANGED <<page, indexContent, pc, shouldIndexContent, currentHeading,
                   indexedText, position, documents, pending, emitted, returned>>

\* The parser never leaves two text nodes side by side: it merges them.
AfterText == walked # <<>> /\ walked[Len(walked)].type = "text"

\* index.ts:405
TextAddedAlways(data) == data
TextAdded(data) == IF PreserveSpace \/ Truthy(Trim(data)) THEN data ELSE <<>>

\* render on a text node, index.ts:404-406
VisitText(tok) ==
    /\ tok.type = "text"
    /\ ~AfterText
    /\ Visit(tok)
    /\ indexedText' = indexedText \o TextAdded(tok.data)
    /\ pending' = Append(pending, [data |-> tok.data, pre |-> PreserveSpace,
                                   added |-> TextAdded(tok.data) = tok.data])
    /\ UNCHANGED <<page, indexContent, pc, open, shouldIndexContent, currentHeading,
                   position, documents, emitted, returned>>

\* index.ts:408-410
TruncatesWhateverIndexContent(tok) == HasExcerpt /\ IsExcerptMarker(tok)
Truncates(tok) == HasExcerpt /\ ~indexContent /\ IsExcerptMarker(tok)

\* render on a comment node, index.ts:407-413
VisitComment(tok) ==
    /\ tok.type = "comment"
    /\ Visit(tok)
    /\ shouldIndexContent' = IF Truncates(tok) THEN FALSE ELSE shouldIndexContent
    /\ UNCHANGED <<page, indexContent, pc, open, currentHeading, indexedText,
                   position, documents, pending, emitted, returned>>

\* index.ts:427
NonEmpty(docs) == SelectSeq(docs, LAMBDA d : Trim(d.content) # <<>>)

\* index.ts:436-466
Placeholder ==
    [content |-> <<>>,
     url |-> PageUrl,
     anchor |-> Null,
     objectID |-> GenerateObjectID(PageUrl, Null, 0),
     lang |-> DocLang,
     level |-> 0,
     position |-> 0,
     hierarchy |-> [i \in 0..6 |-> IF i = 0 THEN OrNull(page.title) ELSE Null],
     hierarchy_radio |-> [i \in 0..5 |-> IF i = 0 THEN OrNull(page.title) ELSE Null],
     page_rank |-> DocRank]

\* index.ts:426-469
ResultKeepAll(docs) == IF docs = <<>> THEN <<Placeholder>> ELSE docs
ResultNoPlaceholder(docs) == IF NonEmpty(docs) # <<>> THEN NonEmpty(docs) ELSE docs
Result(docs) ==
    IF Len(NonEmpty(docs)) > 0 THEN NonEmpty(docs)
    ELSE IF Len(docs) = 0 THEN <<Placeholder>>
    ELSE docs

\* !nodes.length, index.ts:416-418
NoNodesNever == FALSE
NoNodes == Len(walked) = 0

\* index.ts:416-469: no node, or the walk is over: the last flush and the result
Finish ==
    /\ pc = "walk"
    /\ open = <<>>
    /\ pc' = "done"
    /\ IF NoNodes
       THEN /\ returned' = <<>>
            /\ UNCHANGED <<documents, indexedText, position, pending, emitted>>
       ELSE /\ documents' = AddTextToIndex.documents
            /\ RecordFlush
            /\ indexedText' = AddTextToIndex.indexedText
            /\ position' = AddTextToIndex.position
            /\ returned' = Result(AddTextToIndex.documents)
    /\ UNCHANGED <<page, indexContent, walked, open, shouldIndexContent, currentHeading>>

Next ==
    \/ \E tok \in Tokens : VisitHeading(tok) /\ UNCHANGED <<identity, build>>
    \/ \E tok \in Tokens : VisitBlock(tok) /\ UNCHANGED <<identity, build>>
    \/ \E tok \in Tokens : VisitInline(tok) /\ UNCHANGED <<identity, build>>
    \/ \E tok \in Tokens : VisitOther(tok) /\ UNCHANGED <<identity, build>>
    \/ \E tok \in Tokens : Leave(tok) /\ UNCHANGED <<identity, build>>
    \/ \E tok \in Tokens : VisitText(tok) /\ UNCHANGED <<identity, build>>
    \/ \E tok \in Tokens : VisitComment(tok) /\ UNCHANGED <<identity, build>>
    \/ Finish /\ UNCHANGED <<identity, build>>

Spec == Init /\ [][Next]_vars

-----------------------------------------------------------------------------
(* generateObjectID on its own, index.ts:284-287 *)

\* No page is being segmented.
NoPage ==
    [title |-> <<>>, excerpt |-> <<>>, lang |-> <<>>, path |-> <<>>, baseUrl |-> <<>>,
     page_rank |-> [type |-> "undefined", value |-> 0]]

SegmenterIdle ==
    /\ page = NoPage
    /\ indexContent = FALSE
    /\ pc = "idle"
    /\ walked = <<>>
    /\ open = <<>>
    /\ shouldIndexContent = FALSE
    /\ currentHeading = <<>>
    /\ indexedText = <<>>
    /\ position = 0
    /\ documents = <<>>
    /\ pending = <<>>
    /\ emitted = <<>>
    /\ returned = <<>>

\* The positions drawn: 0 .. MaxPosition.
MaxPosition == 11

IdUrls == {<<"/">>, <<"https://s", "/guide.html">>}
\* null, '', an id, and an id that ends like a position
IdAnchors == {Null, <<>>, <<"g">>, <<"g", "-", "1">>}

IdInit ==
    /\ SegmenterIdle
    /\ BuildIdle
    /\ idArgs \in [url : IdUrls, anchor : IdAnchors,
                    position : 0..MaxPosition, other : 0..MaxPosition]
    /\ idOut = <<>>

\* The position argument of the k-th call: position, position again, other.
IdPosition(k) == IF k = 3 THEN idArgs.other ELSE idArgs.position

\* One call of generateObjectID(url, anchor, position)
CallGenerateObjectID ==
    /\ Len(idOut) < 3
    /\ idOut' = Append(idOut, GenerateObjectID(idArgs.url, idArgs.anchor,
                                                IdPosition(Len(idOut) + 1)))
    /\ UNCHANGED <<idArgs, segmenter, build>>

IdNext == CallGenerateObjectID

IdSpec == IdInit /\ [][IdNext]_vars

-----------------------------------------------------------------------------
(* generateMeiliSearchIndex, index.ts:146-200: inputs *)

\* A page of the site: the fields generatePageDocuments reads, frontmatter.search
\* ("undefined" where the frontmatter has none) and the parsed contentRendered.
SitePage(path, title, search, markup) ==
    [title |-> title, excerpt |-> <<>>, lang |-> <<"z", "h">>, path |-> <<path>>,
     baseUrl |-> <<>>, page_rank |-> [type |-> "undefined", value |-> 0],
     search |-> search, contentRendered |-> markup]

\*   <!--x--><img><h1 id="g"><a class="header-anchor"><span>G</span></a></h1>
\*   <p><code>A</code></p><h2 id="c"><code>x</code></h2><p>B</p>
HomeMarkup ==
    <<OtherComment, Elem("img"), AnchorHeading(1, <<"g">>, <<"G">>),
      Elem("p"), Elem("code"), TextNode(A), EndTag, EndTag,
      CodeHeading(2), Elem("p"), TextNode(B), EndTag>>
\*   <p>A</p><p>B</p>
TwoBlocks == <<Elem("p"), TextNode(A), EndTag, Elem("p"), TextNode(B), EndTag>>

HomePage == SitePage("/", T, "undefined", HomeMarkup)
PostPage == SitePage("/post.html", <<"P">>, "true", TwoBlocks)
DraftPage == SitePage("/draft.html", <<"D">>, "false", TwoBlocks)
NotFoundPage == SitePage("/404.html", <<>>, "undefined", <<Elem("p"), TextNode(B), EndTag>>)
ApiPage == SitePage("/api.html", <<"I">>, "undefined", BareAnchorExample)
EmptyPage == SitePage("/empty.html", <<"E">>, "undefined", <<>>)

\* filter, by the paths of the pages it returns true for: the default
\* () => true (index.ts:153), the README's page.path !== '/404.html', and one
\* that keeps the home page only.
AllPaths == {<<"/">>, <<"/post.html">>, <<"/draft.html">>, <<"/404.html">>,
             <<"/api.html">>, <<"/empty.html">>}
FilterAll == AllPaths
FilterNot404 == AllPaths \ {<<"/404.html">>}
FilterHome == {<<"/">>}

\* app.pages with the options that reach the segmenter
Build(pages, filter, content, baseUrl) ==
    [app |-> pages, filter |-> filter, indexContent |-> content, baseUrl |-> baseUrl]

Builds ==
    { Build(<<HomePage, DraftPage, NotFoundPage>>, FilterNot404, TRUE, <<"https://s">>),
      Build(<<DraftPage, EmptyPage, NotFoundPage>>, FilterAll, FALSE, <<>>),
      Build(<<PostPage, DraftPage, HomePage>>, FilterHome, TRUE, <<>>),
      Build(<<PostPage, HomePage>>, FilterAll, TRUE, <<>>),
      Build(<<HomePage, ApiPage, PostPage>>, FilterAll, TRUE, <<>>),
      Build(<<HomePage, PostPage>>, FilterAll, TRUE, <<"https://s">>) }

MasterKey == <<"masterKey">>
EnvKey == <<"envKey">>
Host == <<"http://localhost:7700">>
IndexUid == <<"docs">>

\* deploy.key, deploy.host, deploy.index_uid and process.env.MEILISEARCH_API_KEY
Credential(key, host, index_uid, envKey) ==
    [key |-> key, host |-> host, index_uid |-> index_uid, envKey |-> envKey]

Credentials ==
    { Credential(MasterKey, Host, IndexUid, Undefined),
      Credential(MasterKey, Host, IndexUid, EnvKey),
      Credential(Undefined, Host, IndexUid, EnvKey),
      Credential(Null, Host, IndexUid, Undefined),
      Credential(MasterKey, <<>>, IndexUid, Undefined),
      Credential(MasterKey, Host, <<>>, EnvKey) }

\* index.ts:9, and the value the README gives (README.md:32, 59)
DeployTriggers == {"deploy = true", "everytime", "meilideploy = true"}
\* index.ts:10
DeployTypes == {"full", "incremental"}

\* MeiliSearchDeployConfig, index.ts:25-70
DeployConfig(trigger, type, c) ==
    [trigger |-> trigger, host |-> c.host, key |-> c.key, index_uid |-> c.index_uid,
     type |-> type]

\* options.deploy: <<>> where it is not set, else <<the configuration>>
DeployOptions(c) ==
    {<<>>} \cup {<<DeployConfig(t, ty, c)>> : t \in DeployTriggers, ty \in DeployTypes}

\* A document the index holds from an earlier build.
OldDocument(url, content) ==
    [content |-> content, url |-> url, anchor |-> Null,
     objectID |-> GenerateObjectID(url, Null, 0), lang |-> <<"e", "n">>,
     level |-> 0, position |-> 0,
     hierarchy |-> [i \in 0..6 |-> Null], hierarchy_radio |-> [i \in 0..5 |-> Null],
     page_rank |-> 0]

\* The index before the build: empty, or a document of a page that is gone and
\* earlier documents of the pages /post.html and /.
OldDocuments ==
    { OldDocument(<<"/gone.html">>, <<"X">>),
      OldDocument(<<"/post.html">>, <<"O">>),
      OldDocument(<<"/">>, <<"O">>) }

EnvValues == {Undefined, <<"true">>}

BuildInit ==
    /\ SegmenterIdle
    /\ IdIdle
    /\ \E b \in Builds, out \in {Undefined, <<"./index.json">>}, c \in Credentials,
          dep \in EnvValues, meili \in EnvValues :
          /\ app = b.app
          /\ \E d \in DeployOptions(c) :
                options = [indexOutputFile |-> out, indexContent |-> b.indexContent,
                           filter |-> b.filter, baseUrl |-> b.baseUrl, deploy |-> d]
          /\ env = [DEPLOY |-> dep, MEILIDEPLOY |-> meili, MEILISEARCH_API_KEY |-> c.envKey]
    /\ phase = "start"
    /\ pageIdx = 0
    /\ allDocuments = <<>>
    /\ file = <<>>
    /\ remote \in {{}, OldDocuments}
    /\ remoteBefore = remote
    /\ trace = <<>>
    /\ reported = <<>>
    /\ segmented = <<>>

-----------------------------------------------------------------------------
(* generateMeiliSearchIndex, index.ts:146-200 *)

HasOutputFile == Truthy(options.indexOutputFile)
HasDeploy == options.deploy # <<>>
Deploy == options.deploy[1]

\* index.ts:159
NothingConfigured == ~HasOutputFile /\ ~HasDeploy

\* index.ts:165
WontTrigger ==
    /\ ~HasOutputFile
    /\ HasDeploy
    /\ Deploy.trigger = "deploy = true"
    /\ env.DEPLOY # <<"true">>

\* index.ts:197
Triggered ==
    /\ HasDeploy
    /\ \/ Deploy.trigger = "deploy = true" /\ env.DEPLOY = <<"true">>
       \/ Deploy.trigger = "everytime"

\* index.ts:158-168: the pass is skipped
SkipGeneration ==
    /\ phase = "start"
    /\ NothingConfigured \/ WontTrigger
    /\ phase' = "skipped"
    /\ UNCHANGED <<segmenter, identity, options, env, app, remoteBefore, pageIdx, allDocuments, file,
                   remote, trace, reported, segmented>>

\* index.ts:170-171
StartGeneration ==
    /\ phase = "start"
    /\ ~(NothingConfigured \/ WontTrigger)
    /\ phase' = "pages"
    /\ UNCHANGED <<segmenter, identity, options, env, app, remoteBefore, pageIdx, allDocuments, file,
                   remote, trace, reported, segmented>>

\* The page app.pages.forEach is at.
ThisPage == app[pageIdx + 1]

\* filter(page) && page.frontmatter.search !== false, index.ts:173
IncludedWhateverSearch(p) == p.path \in options.filter
Included(p) == p.path \in options.filter /\ p.search # "false"

\* index.ts:172-174: the page goes to generatePageDocuments (index.ts:297-313)
BeginPage ==
    /\ phase = "pages" /\ pc = "idle" /\ pageIdx < Len(app)
    /\ Included(ThisPage)
    /\ page' = [ThisPage EXCEPT !.baseUrl = options.baseUrl]
    /\ indexContent' = options.indexContent
    /\ pc' = "walk"
    /\ walked' = <<>>
    /\ open' = <<>>
    /\ shouldIndexContent' = (Len(ThisPage.excerpt) > 0 \/ options.indexContent)
    /\ currentHeading' = <<Frame(0, ThisPage.title, Null)>>
    /\ indexedText' = <<>>
    /\ position' = 0
    /\ documents' = <<>>
    /\ pending' = <<>>
    /\ emitted' = <<>>
    /\ returned' = <<>>
    /\ UNCHANGED <<identity, build>>

\* index.ts:173: the page is left out
ExcludePage ==
    /\ phase = "pages" /\ pc = "idle" /\ pageIdx < Len(app)
    /\ ~Included(ThisPage)
    /\ pageIdx' = pageIdx + 1
    /\ UNCHANGED <<segmenter, identity, options, env, app, remoteBefore, phase, allDocuments, file,
                   remote, trace, reported, segmented>>

\* index.ts:174-175: documents.push(...pageDocuments)
CollectPage ==
    /\ phase = "pages" /\ pc = "done"
    /\ allDocuments' = allDocuments \o returned
    /\ segmented' = Append(segmented, [index |-> pageIdx + 1, returned |-> returned])
    /\ pageIdx' = pageIdx + 1
    /\ pc' = "idle"
    /\ UNCHANGED <<page, indexContent, walked, open, shouldIndexContent, currentHeading,
                   indexedText, position, documents, pending, emitted, returned,
                   identity, options, env, app, remoteBefore, phase, file, remote, trace, reported>>

\* index.ts:172-177: what generatePageDocuments raises leaves forEach and the
\* async function: the promise onGenerated returns is rejected.
PageThrows ==
    /\ phase = "pages" /\ pc = "threw"
    /\ phase' = "rejected"
    /\ UNCHANGED <<segmenter, identity, options, env, app, remoteBefore, pageIdx, allDocuments, file,
                   remote, trace, reported, segmented>>

\* The nodes of the page being segmented, one by one; then none.
BuildTokens ==
    IF pc = "walk" /\ Len(walked) < Len(page.contentRendered)
    THEN {page.contentRendered[Len(walked) + 1]}
    ELSE {}

\* nodes.forEach is over, index.ts:420-422
WalkOver == pc = "walk" /\ Len(walked) = Len(page.contentRendered)

PagesDone == phase = "pages" /\ pc = "idle" /\ pageIdx = Len(app)

\* index.ts:180-194: mkdir and writeFile, one of which may fail; the file holds
\* the JSON text of documents, kept here as the list it is the text of.
WriteIndexFile ==
    /\ PagesDone
    /\ HasOutputFile
    /\ \E ok \in BOOLEAN :
          /\ file' = IF ok THEN <<allDocuments>> ELSE file
          /\ reported' = IF ok THEN reported ELSE Append(reported, "Failed to save index to file")
    /\ phase' = "trigger"
    /\ UNCHANGED <<segmenter, identity, options, env, app, remoteBefore, pageIdx, allDocuments,
                   remote, trace, segmented>>

\* index.ts:180: no output file is set
NoIndexFile ==
    /\ PagesDone
    /\ ~HasOutputFile
    /\ phase' = "trigger"
    /\ UNCHANGED <<segmenter, identity, options, env, app, remoteBefore, pageIdx, allDocuments, file,
                   remote, trace, reported, segmented>>

\* index.ts:197-198
CallDeploy ==
    /\ phase = "trigger"
    /\ Triggered
    /\ phase' = "deploy"
    /\ UNCHANGED <<segmenter, identity, options, env, app, remoteBefore, pageIdx, allDocuments, file,
                   remote, trace, reported, segmented>>

\* index.ts:197-200: no deployment; the promise is resolved
NoDeploy ==
    /\ phase = "trigger"
    /\ ~Triggered
    /\ phase' = "resolved"
    /\ UNCHANGED <<segmenter, identity, options, env, app, remoteBefore, pageIdx, allDocuments, file,
                   remote, trace, reported, segmented>>

-----------------------------------------------------------------------------
(* The Meilisearch index: what deleteAllDocuments, addDocuments and          *)
(* updateDocuments do to its documents.  The primary key is objectID.        *)

\* index.ts:62, 236
DeleteAllDocuments(store) == {}

\* One document added, in the place of the stored document of the same objectID.
PutDocument(store, d) == {e \in store : e.objectID # d.objectID} \cup {d}

RECURSIVE AddDocuments(_, _)
\* index.ts:62, 237: add or replace, document by document in list order
AddDocuments(store, docs) ==
    IF docs = <<>> THEN store
    ELSE AddDocuments(PutDocument(store, Head(docs)), Tail(docs))

\* The stored document e with the fields of d written over it.
MergeDocument(e, d) ==
    [f \in DOMAIN e \cup DOMAIN d |-> IF f \in DOMAIN d THEN d[f] ELSE e[f]]

UpdateDocument(store, d) ==
    LET old == {e \in store : e.objectID = d.objectID}
    IN  IF old = {} THEN store \cup {d}
        ELSE (store \ old) \cup {MergeDocument(CHOOSE e \in old : TRUE, d)}

RECURSIVE UpdateDocuments(_, _)
\* index.ts:63, 239: add or update, document by document in list order
UpdateDocuments(store, docs) ==
    IF docs = <<>> THEN store
    ELSE UpdateDocuments(UpdateDocument(store, Head(docs)), Tail(docs))

-----------------------------------------------------------------------------
(* deployToMeilisearch, index.ts:205-247 *)

\* key || process.env.MEILISEARCH_API_KEY, index.ts:213
ApiKey == IF Truthy(Deploy.key) THEN Deploy.key ELSE env.MEILISEARCH_API_KEY

\* index.ts:216, 222, 244
NoApiKey == "API key not provided and MEILISEARCH_API_KEY environment variable not set"
MissingConfig == "Missing required Meilisearch configuration"
DeployFailed == "Failed to deploy to Meilisearch"

\* index.ts:215-224: the error reported, "" where there is none
ConfigErrorKeyOnly == IF ~Truthy(ApiKey) THEN NoApiKey ELSE ""
ConfigError ==
    IF ~Truthy(ApiKey) THEN NoApiKey
    ELSE IF ~Truthy(Deploy.host) \/ ~Truthy(Deploy.index_uid) THEN MissingConfig
    ELSE ""

\* index.ts:215-224
RejectConfig ==
    /\ phase = "deploy"
    /\ ConfigError # ""
    /\ reported' = Append(reported, ConfigError)
    /\ phase' = "resolved"
    /\ UNCHANGED <<segmenter, identity, options, env, app, remoteBefore, pageIdx, allDocuments, file,
                   remote, trace, segmented>>

\* index.ts:226-235: the client, the index and the branch on type
Connect ==
    /\ phase = "deploy"
    /\ ConfigError = ""
    /\ phase' = IF Deploy.type = "full" THEN "delete" ELSE "update"
    /\ UNCHANGED <<segmenter, identity, options, env, app, remoteBefore, pageIdx, allDocuments, file,
                   remote, trace, reported, segmented>>

\* A remote operation as issued, with its outcome.
Call(op, docs, ok) ==
    [op |-> op, documents |-> docs, host |-> Deploy.host, apiKey |-> ApiKey,
     index_uid |-> Deploy.index_uid, ok |-> ok]

\* Where control goes after an awaited remote operation, index.ts:235-246: to
\* addDocuments after a deleteAllDocuments that succeeded; to the end after the
\* last operation; through the catch block to the end after a failure.
AfterCallRethrows(op, ok) ==
    IF ~ok THEN "rejected"
    ELSE IF op = "deleteAllDocuments" THEN "add" ELSE "resolved"
AfterCallAddsAgain(op, ok) ==
    IF op = "deleteAllDocuments" /\ ok THEN "add"
    ELSE IF op = "addDocuments" /\ ~ok /\ Len(trace) < 3 THEN "add"
    ELSE "resolved"
AfterCallWhateverOutcome(op, ok) ==
    IF op = "deleteAllDocuments" THEN "add" ELSE "resolved"
AfterCall(op, ok) ==
    IF op = "deleteAllDocuments" /\ ok THEN "add" ELSE "resolved"

\* An awaited remote operation: it succeeds and the index becomes `after`, or it
\* fails, the index is as it was and the catch block reports the failure.
Issue(op, docs, ok, after) ==
    /\ trace' = Append(trace, Call(op, docs, ok))
    /\ remote' = IF ok THEN after ELSE remote
    /\ reported' = IF ok THEN reported ELSE Append(reported, DeployFailed)
    /\ phase' = AfterCall(op, ok)
    /\ UNCHANGED <<segmenter, identity, options, env, app, remoteBefore, pageIdx, allDocuments, file,
                   segmented>>

\* index.ts:236
CallDeleteAllDocuments ==
    /\ phase = "delete"
    /\ \E ok \in BOOLEAN :
          Issue("deleteAllDocuments", <<>>, ok, DeleteAllDocuments(remote))

\* index.ts:237
CallAddDocuments ==
    /\ phase = "add"
    /\ \E ok \in BOOLEAN :
          Issue("addDocuments", allDocuments, ok, AddDocuments(remote, allDocuments))

\* index.ts:239
CallUpdateDocuments ==
    /\ phase = "update"
    /\ \E ok \in BOOLEAN :
          Issue("updateDocuments", allDocuments, ok, UpdateDocuments(remote, allDocuments))

BuildNext ==
    \/ SkipGeneration
    \/ StartGeneration
    \/ BeginPage
    \/ ExcludePage
    \/ \E tok \in BuildTokens : VisitHeading(tok) /\ UNCHANGED <<identity, build>>
    \/ \E tok \in BuildTokens : VisitBlock(tok) /\ UNCHANGED <<identity, build>>
    \/ \E tok \in BuildTokens : VisitInline(tok) /\ UNCHANGED <<identity, build>>
    \/ \E tok \in BuildTokens : VisitOther(tok) /\ UNCHANGED <<identity, build>>
    \/ \E tok \in BuildTokens : Leave(tok) /\ UNCHANGED <<identity, build>>
    \/ \E tok \in BuildTokens : VisitText(tok) /\ UNCHANGED <<identity, build>>
    \/ \E tok \in BuildTokens : VisitComment(tok) /\ UNCHANGED <<identity, build>>
    \/ WalkOver /\ Finish /\ UNCHANGED <<identity, build>>
    \/ CollectPage
    \/ PageThrows
    \/ WriteIndexFile
    \/ NoIndexFile
    \/ CallDeploy
    \/ NoDeploy
    \/ RejectConfig
    \/ Connect
    \/ CallDeleteAllDocuments
    \/ CallAddDocuments
    \/ CallUpdateDocuments

BuildSpec == BuildInit /\ [][BuildNext]_vars

-----------------------------------------------------------------------------
(* Vocabulary of the properties *)

Range(s) == {s[i] : i \in 1..Len(s)}

\* t occurs in s as a contiguous run
HasSub(s, t) == \E i \in 0..(Len(s) - Len(t)) : SubSeq(s, i + 1, i + Len(t)) = t

RECURSIVE Concat(_)
Concat(parts) == IF parts = <<>> THEN <<>> ELSE Head(parts) \o Concat(Tail(parts))

\* The accumulated text a history entry (a sequence of text nodes) stands for.
Raw(nodes) ==
    LET kept == SelectSeq(nodes, LAMBDA n : n.added)
    IN  Concat([i \in 1..Len(kept) |-> kept[i].data])

RECURSIVE WordsFrom(_, _)
\* The maximal runs of non-whitespace characters of s, in order (cur: the run so far).
WordsFrom(s, cur) ==
    IF s = <<>> THEN (IF cur = <<>> THEN <<>> ELSE <<cur>>)
    ELSE IF IsSpace(Head(s))
         THEN (IF cur = <<>> THEN <<>> ELSE <<cur>>) \o WordsFrom(Tail(s), <<>>)
         ELSE WordsFrom(Tail(s), Append(cur, Head(s)))

Words(s) == WordsFrom(s, <<>>)

IsHeadingTok(tok) == tok.type = "tag" /\ tok.name \in HEADING_TAGS
HeadingsWalked == SelectSeq(walked, IsHeadingTok)
Levels == {currentHeading[k].level : k \in 1..Len(currentHeading)}
Returned == Range(returned)
\* The page is one that truncates at the marker.
ExcerptOnly == HasExcerpt /\ ~indexContent

-----------------------------------------------------------------------------
(* Properties *)

\* C1: for <p>A</p><!--more--><p>B</p> with an excerpt and indexContent = false,
\* some returned document's content includes "A" and none includes "B".
C1_ExcerptKeepsTextBeforeMarker ==
    (pc = "done" /\ ExcerptOnly /\ walked = ExcerptExample)
    => /\ \E d \in Returned : "A" \in Range(d.content)
       /\ \A d \in Returned : "B" \notin Range(d.content)

\* The text nodes visited for the k-th document.
NodesOf(k) == {emitted[k][i] : i \in 1..Len(emitted[k])}

\* C2 (as stated): a run of several newlines in a text node under pre is in the
\* content of the document emitted for that text verbatim; the same run in a text
\* node outside pre is one space in the content.
C2_PreKeepsNewlineRun ==
    \A k \in 1..Len(documents) : \A n \in NodesOf(k) :
        HasSub(n.data, NL2)
        => IF n.pre THEN HasSub(documents[k].content, NL2)
           ELSE HasSub(documents[k].content, <<"A", SP, "B">>)

\* C2 (amended): under pre a text node is appended to the accumulator as it is,
\* also when it is only whitespace; outside pre a text node of only whitespace is
\* not appended; and in the content a run of newlines between two letters is one
\* space, under pre and outside it, and no newline is left.
C2_PreKeepsWhitespaceNodes ==
    /\ indexedText = Raw(pending)
    /\ \A n \in Range(pending) : n.added <=> (n.pre \/ Words(n.data) # <<>>)
    /\ \A k \in 1..Len(documents) :
          /\ NL \notin Range(documents[k].content)
          /\ \A n \in NodesOf(k) :
                /\ n.added <=> (n.pre \/ Words(n.data) # <<>>)
                /\ n.data = ANB => HasSub(documents[k].content, <<"A", SP, "B">>)

\* A document whose text is a newline run under pre followed by A\n\nB, and
\* another with A\n\nB outside pre.
C2_Witness ==
    /\ \E k \in 1..Len(documents) :
          /\ Len(emitted[k]) >= 2
          /\ emitted[k][1] = [data |-> NL2, pre |-> TRUE, added |-> TRUE]
          /\ emitted[k][2] = [data |-> ANB, pre |-> TRUE, added |-> TRUE]
          /\ documents[k].content = <<"A", SP, "B">>
    /\ \E k \in 1..Len(documents) :
          emitted[k] = <<[data |-> ANB, pre |-> FALSE, added |-> TRUE]>>

\* C3: the content of every returned document has no whitespace at its ends, no
\* newline and no two adjacent whitespace characters: it is the words of the
\* accumulated text, one space between two words.
C3_ContentNormalized ==
    pc = "done" =>
      \A d \in Returned :
         /\ d.content # <<>> => ~IsSpace(d.content[1]) /\ ~IsSpace(d.content[Len(d.content)])
         /\ \A i \in 1..Len(d.content) : IsSpace(d.content[i]) => d.content[i] = SP
         /\ \A i \in 1..(Len(d.content) - 1) :
               ~(IsSpace(d.content[i]) /\ IsSpace(d.content[i + 1]))
         /\ documents # <<>> => d.content = JoinSpace(Words(Raw(emitted[d.position + 1])))

\* A returned document whose accumulated text began and ended with a newline run
\* under pre.
C3_Witness ==
    /\ pc = "done"
    /\ \E d \in Returned :
          LET raw == Raw(emitted[d.position + 1])
          IN  /\ d.content = <<"A", SP, "B">>
              /\ SubSeq(raw, 1, 2) = NL2
              /\ SubSeq(raw, Len(raw) - 1, Len(raw)) = NL2

\* The document a step appended, if it appended one.
Emitting == Len(documents') = Len(documents) + 1
LastEmitted == documents'[Len(documents')]

\* The id of the deepest active frame that has an id, or null.
DeepestId ==
    LET ids == {k \in 1..Len(currentHeading) : currentHeading[k].id \notin {Null, Undefined}}
    IN  IF ids = {} THEN Null
        ELSE currentHeading[CHOOSE k \in ids :
                 \A j \in ids : currentHeading[j].level <= currentHeading[k].level].id

\* C4: the anchor of every emitted document is the id of the deepest frame, active
\* when it is emitted, that has an id, and null only when no active frame has one.
C4_AnchorIsDeepestWithId == [][Emitting => LastEmitted.anchor = DeepestId]_vars

\* The frames hold one frame per level, the first the level-0 frame of the title.
StackInv ==
    /\ Len(currentHeading) >= 1
    /\ currentHeading[1] = Frame(0, page.title, Null)
    /\ \A i, j \in 1..Len(currentHeading) :
          i < j => currentHeading[i].level # currentHeading[j].level

\* A heading of level L: the frames below L stay as they are, in order, every
\* frame at L or deeper goes, and the one frame of the heading is added.
HeadingStep ==
    (pc' = "walk" /\ Len(walked') = Len(walked) + 1 /\ IsHeadingTok(walked'[Len(walked')]))
    => LET tok == walked'[Len(walked')]
           L   == HeadingLevel(tok.name)
           new == currentHeading'[Len(currentHeading')]
       IN  /\ L \in 1..6
           /\ new.level = L /\ new.id = tok.id /\ new.text = RenderHeader(tok)
           /\ \A k \in 1..(Len(currentHeading') - 1) : currentHeading'[k].level < L
           /\ SubSeq(currentHeading', 1, Len(currentHeading') - 1)
                = SelectSeq(currentHeading, LAMBDA h : h.level < L)
           /\ \A k \in 1..Len(currentHeading) :
                 currentHeading[k].level >= L
                 => \A m \in 1..(Len(currentHeading') - 1) : currentHeading'[m] # currentHeading[k]

\* C5: at most one frame per level, the level-0 frame of the title always there,
\* and a heading of level L removes the frames of level >= L, leaves those of
\* level < L unchanged and adds its own.
C5_HeadingStack == []StackInv /\ [][HeadingStep]_vars

\* Three headings walked, the third having evicted the other two.
C5_Witness ==
    /\ Len(HeadingsWalked) = 3
    /\ HeadingLevel(HeadingsWalked[1].name) = 4
    /\ HeadingLevel(HeadingsWalked[2].name) = 6
    /\ HeadingLevel(HeadingsWalked[3].name) = 1
    /\ Levels = {0, 1}

\* The markup so far is an h2, an h3 and an h2, the two h2 different.
H2H3H2 ==
    /\ pc = "walk"
    /\ Len(walked) = 3
    /\ \A i \in 1..3 : IsHeadingTok(walked[i])
    /\ <<walked[1].name, walked[2].name, walked[3].name>> = <<"h2", "h3", "h2">>

SecondH2Active ==
    \E k \in 1..Len(currentHeading) :
        currentHeading[k] = Frame(2, RenderHeader(walked[3]), walked[3].id)

\* C6 (as stated): after h2, h3, h2 the active frames are those of levels 0, 1
\* and 2, none of level 3, and the level-2 frame is the second h2's.
C6_EvictionLeavesLevels012 ==
    H2H3H2 => Levels = {0, 1, 2} /\ SecondH2Active

\* C6 (amended): after h2, h3, h2 from the initial state the active frames are
\* those of levels 0 and 2 only, and the level-2 frame is the second h2's.
C6_EvictionLeavesLevels02 ==
    H2H3H2 => Levels = {0, 2} /\ Len(currentHeading) = 2 /\ SecondH2Active

C6_Witness == H2H3H2 /\ walked[1] # walked[3] /\ shouldIndexContent

TitleOrNull == IF page.title = <<>> THEN Null ELSE page.title

\* C7 (as stated): hierarchy_lvl0 of every returned document is the page title,
\* and on a page without headings hierarchy_lvl1..6 are null.
C7_Lvl0IsTitle ==
    pc = "done" =>
      \A d \in Returned :
         /\ d.hierarchy[0] = page.title
         /\ HeadingsWalked = <<>> => \A i \in 1..6 : d.hierarchy[i] = Null

\* C7 (amended): hierarchy_lvl0 of every returned document is the page title, or
\* null when the title is the empty string; without headings lvl1..6 are null.
C7_Lvl0IsTitleOrNull ==
    pc = "done" =>
      \A d \in Returned :
         /\ d.hierarchy[0] = TitleOrNull
         /\ HeadingsWalked = <<>> => \A i \in 1..6 : d.hierarchy[i] = Null

\* A returned document under two headings that still has the title at level 0.
C7_Witness ==
    /\ pc = "done"
    /\ Len(HeadingsWalked) >= 2
    /\ \E d \in Returned : d.level > 0 /\ d.hierarchy[0] = T /\ d.hierarchy[d.level] # Null

IsEmptyDoc(d) == d.content = <<>>
SomeContent == \E k \in 1..Len(documents) : ~IsEmptyDoc(documents[k])

\* C8: when some emitted document has content, the documents returned are the
\* emitted documents with content, in emission order, positions unchanged.
C8_NonEmptyPreferred ==
    (pc = "done" /\ SomeContent) =>
      /\ \A j \in 1..Len(returned) :
            /\ ~IsEmptyDoc(returned[j])
            /\ returned[j] = documents[returned[j].position + 1]
      /\ \A i, j \in 1..Len(returned) : i < j => returned[i].position < returned[j].position
      /\ \A k \in 1..Len(documents) :
            ~IsEmptyDoc(documents[k]) => \E j \in 1..Len(returned) : returned[j] = documents[k]

\* An empty document was emitted before one with content, and only that is returned.
C8_Witness ==
    /\ pc = "done"
    /\ Len(documents) >= 2
    /\ IsEmptyDoc(documents[1])
    /\ Len(returned) = 1
    /\ returned[1].position > 0

IsPlaceholder(d, title) ==
    /\ d.content = <<>> /\ d.anchor = Null /\ d.level = 0 /\ d.position = 0
    /\ d.hierarchy[0] = title /\ d.hierarchy_radio[0] = title
    /\ \A i \in 1..6 : d.hierarchy[i] = Null
    /\ \A i \in 1..5 : d.hierarchy_radio[i] = Null

PlaceholderGuarantee(title) ==
    (pc = "done" /\ walked # <<>> /\ ~SomeContent) =>
      /\ Len(returned) >= 1
      /\ \A d \in Returned : d.content = <<>> /\ d.hierarchy[0] = title
      /\ documents = <<>> => Len(returned) = 1 /\ IsPlaceholder(returned[1], title)

\* C9 (as stated): a page of at least one node and no content returns at least
\* one document, all with empty content and the title as hierarchy_lvl0; when
\* nothing was emitted, exactly the placeholder (radio_lvl0 the title).
C9_PlaceholderHasTitle == PlaceholderGuarantee(page.title)

\* C9 (amended): the same, with null for lvl0 and radio_lvl0 when the title is
\* the empty string.
C9_PlaceholderHasTitleOrNull == PlaceholderGuarantee(TitleOrNull)

\* A page cut at the marker before the first boundary: only the placeholder.
C9_Witness ==
    /\ pc = "done"
    /\ ExcerptOnly
    /\ Len(walked) >= 2
    /\ documents = <<>>
    /\ Len(returned) = 1

\* C10: the list returned is empty exactly when the markup has no node.
C10_EmptyIffNoNodes ==
    pc = "done" => (returned = <<>> <=> walked = <<>>)

\* No node, indexing on: nothing is returned, not the placeholder either.
C10_Witness ==
    pc = "done" /\ walked = <<>> /\ shouldIndexContent /\ returned = <<>>

\* C11: the result of generateObjectID depends on the id source only (the same
\* arguments, and any arguments with the same id source, give the same result);
\* with a non-null, non-empty anchor the id source is url#anchor-position and two
\* different positions give different results; with a null anchor the id source
\* is the url and the position has no effect.
C11_IdentityStable ==
    Len(idOut) = 3 =>
      LET url    == idArgs.url
          anchor == idArgs.anchor
          p      == idArgs.position
          q      == idArgs.other
      IN  /\ idOut[1] = idOut[2]
          /\ \A a \in IdAnchors, r \in 0..MaxPosition :
                IdSource(url, a, r) = IdSource(url, anchor, p)
                => GenerateObjectID(url, a, r) = idOut[1]
          /\ (anchor # Null /\ anchor # <<>>)
             => /\ idOut[1] = Sha1(url \o <<"#">> \o anchor \o <<"-">> \o Decimal(p))
                /\ p # q => idOut[3] # idOut[1]
          /\ anchor = Null => idOut[1] = Sha1(url) /\ idOut[3] = idOut[1]

\* Positions 1 and 11 under an anchor that itself ends in "-1".
C11_Witness ==
    /\ Len(idOut) = 3
    /\ idArgs.anchor = <<"g", "-", "1">>
    /\ idArgs.position = 1 /\ idArgs.other = 11
    /\ idOut[3] # idOut[1]

\* The objectIDs of a list of documents.
ObjectIDs(docs) == {docs[i].objectID : i \in 1..Len(docs)}

\* deployToMeilisearch ran in full mode and both remote operations succeeded.
FullSyncDone ==
    /\ phase = "resolved"
    /\ Len(trace) = 2
    /\ trace[1].op = "deleteAllDocuments" /\ trace[1].ok
    /\ trace[2].op = "addDocuments" /\ trace[2].ok

\* C12: after a full-mode sync whose two remote operations succeeded, the index
\* holds exactly the documents of the new list, as many as the list has, and
\* none of the documents it held before.
C12_FullSyncLeavesNewSet ==
    FullSyncDone =>
      /\ remote = Range(allDocuments)
      /\ Cardinality(remote) = Len(allDocuments)
      /\ remote \cap remoteBefore = {}

\* deployToMeilisearch runs, or ran, in incremental mode.
IncrementalSync ==
    /\ phase \in {"update", "resolved"}
    /\ HasDeploy /\ Deploy.type = "incremental"
    /\ Triggered /\ ConfigError = ""

\* C13: in incremental mode no delete is issued; a document the index held whose
\* objectID is not in the new list stays as it was; and once updateDocuments has
\* succeeded every document of the new list is in the index.
C13_IncrementalKeepsOthers ==
    IncrementalSync =>
      /\ \A k \in 1..Len(trace) : trace[k].op = "updateDocuments"
      /\ \A x \in remoteBefore : x.objectID \notin ObjectIDs(allDocuments) => x \in remote
      /\ (trace # <<>> /\ trace[Len(trace)].ok)
         => \A d \in Range(allDocuments) : d \in remote

\* Full mode: the delete succeeded and the insert after it failed.
DeleteThenFailedAdd ==
    /\ Len(trace) >= 2
    /\ trace[1].op = "deleteAllDocuments" /\ trace[1].ok
    /\ trace[2].op = "addDocuments" /\ ~trace[2].ok

\* C14: in full mode, when the delete succeeds and the insert fails, the index is
\* left empty, the failure is reported, no further remote operation is issued and
\* generateMeiliSearchIndex resolves.
C14_FailedInsertLeavesEmpty ==
    DeleteThenFailedAdd =>
      /\ remote = {}
      /\ Len(trace) = 2
      /\ reported # <<>> /\ reported[Len(reported)] = DeployFailed
      /\ phase = "resolved"

\* The index held documents, the list to insert has documents, the insert failed.
C14_Witness ==
    /\ DeleteThenFailedAdd
    /\ remoteBefore # {}
    /\ trace[2].documents # <<>>
    /\ remote = {}

SomeCallFailed == \E k \in 1..Len(trace) : ~trace[k].ok

InDeploy == phase \in {"deploy", "delete", "add", "update"}

\* C15: a remote operation that fails, whichever it is, is reported and
\* generateMeiliSearchIndex resolves; no step of deployToMeilisearch rejects the
\* promise or touches the index file.
C15_SyncFailuresContained ==
    /\ [](SomeCallFailed =>
            /\ phase = "resolved"
            /\ reported[Len(reported)] = DeployFailed
            /\ ~trace[Len(trace)].ok)
    /\ [][InDeploy => (file' = file /\ phase' # "rejected")]_vars

\* The index file was written and the first remote operation then failed.
C15_Witness ==
    /\ SomeCallFailed
    /\ Len(trace) = 1
    /\ file = <<allDocuments>> /\ allDocuments # <<>>
    /\ phase = "resolved"

\* deployToMeilisearch was called: it reported a configuration error or issued
\* a remote operation.
DeployCalled ==
    \/ trace # <<>>
    \/ \E k \in 1..Len(reported) : reported[k] \in {NoApiKey, MissingConfig}

KeyGiven == Deploy.key \notin {Null, Undefined, <<>>}
EnvKeySet == env.MEILISEARCH_API_KEY \notin {Undefined, <<>>}

\* The configuration has no key from either place, or no host, or no index_uid.
BadConfig ==
    \/ ~KeyGiven /\ ~EnvKeySet
    \/ Deploy.host = <<>>
    \/ Deploy.index_uid = <<>>

\* C16: every remote operation is issued with config.key when it is given and
\* else with MEILISEARCH_API_KEY; when neither gives a key, or host or index_uid
\* is missing, deployToMeilisearch reports an error, issues no remote operation
\* and generateMeiliSearchIndex resolves.
C16_CredentialCheck ==
    /\ \A k \in 1..Len(trace) :
          /\ ~BadConfig
          /\ trace[k].apiKey = IF KeyGiven THEN Deploy.key ELSE env.MEILISEARCH_API_KEY
    /\ (phase \notin {"start", "skipped"} /\ HasDeploy /\ BadConfig)
       => /\ trace = <<>> /\ remote = remoteBefore
          /\ phase \notin {"delete", "add", "update"}
          /\ phase = "resolved" /\ Triggered
             => /\ reported # <<>>
                /\ reported[Len(reported)] \in {NoApiKey, MissingConfig}

\* A triggered deployment without host, after the index file was written: the
\* error is reported and nothing was sent.
C16_Witness ==
    /\ phase = "resolved"
    /\ HasDeploy /\ Triggered
    /\ Deploy.host = <<>>
    /\ file # <<>>
    /\ reported = <<MissingConfig>>
    /\ trace = <<>>

\* The build pass ended without a page raising.
Ended == phase \in {"resolved", "skipped"}

\* C17: with deploy.trigger 'meilideploy = true' the build deploys when and only
\* when MEILIDEPLOY is 'true'; with 'everytime' it deploys on every build.
C17_ReadmeTrigger ==
    (Ended /\ HasDeploy) =>
      /\ Deploy.trigger = "meilideploy = true"
         => (DeployCalled <=> env.MEILIDEPLOY = <<"true">>)
      /\ Deploy.trigger = "everytime" => DeployCalled

\* The deployment the doc comment of trigger describes.
DocTriggered ==
    /\ HasDeploy
    /\ \/ Deploy.trigger = "everytime"
       \/ Deploy.trigger = "deploy = true" /\ env.DEPLOY = <<"true">>

\* C18: remote operations are issued only if deploy is set and its trigger is
\* 'everytime', or 'deploy = true' with DEPLOY 'true'; with no output file and no
\* such deployment the pass is skipped: no page is segmented, no file written, no
\* remote operation issued.
C18_DocTrigger ==
    /\ DeployCalled => DocTriggered
    /\ (~HasOutputFile /\ ~DocTriggered)
       => /\ phase \in {"start", "skipped"}
          /\ pc = "idle" /\ pageIdx = 0 /\ segmented = <<>>
          /\ file = <<>> /\ trace = <<>>

\* The pages of app.pages, by index, that filter accepts and whose frontmatter
\* does not say search: false.
ShouldInclude(i) == app[i].path \in options.filter /\ app[i].search # "false"

\* The indices of the pages handed to generatePageDocuments so far.
SegmentedIdx == [k \in 1..Len(segmented) |-> segmented[k].index]

\* The url of the documents of page i.
UrlOf(i) == options.baseUrl \o app[i].path

C20_SegmentationNeverRaises == pc # "threw"

\* The k-th emission of the page has position k, counted from 0.
EmissionsNumbered ==
    /\ position = Len(documents)
    /\ \A k \in 1..Len(documents) : documents[k].position = k - 1

\* In the list returned the positions increase strictly and none reaches the
\* number of emissions (the placeholder of a page without emission has position 0).
ReturnedPositionsOrdered ==
    pc = "done" =>
      /\ \A i, j \in 1..Len(returned) : i < j => returned[i].position < returned[j].position
      /\ \A i, j \in 1..Len(returned) : i # j => returned[i].position # returned[j].position
      /\ \A d \in Returned : d.position <= Len(documents)
      /\ documents # <<>> => \A d \in Returned : d.position < Len(documents)

\* A step that enters generatePageDocuments for the next page.
EntersPage == pc = "idle" /\ pc' = "walk"

\* The first emission of a page is made under the title frame alone.
FirstEmissionFresh ==
    (pc # "idle" /\ documents # <<>>) =>
      /\ documents[1].position = 0
      /\ documents[1].level = 0 /\ documents[1].anchor = Null
      /\ documents[1].url = PageUrl
      /\ documents[1].hierarchy = [i \in 0..6 |-> IF i = 0 THEN OrNull(page.title) ELSE Null]

\* C21: the k-th emission of a page, empty ones counted, has position k from 0;
\* the positions of the list returned increase strictly, are pairwise distinct
\* and bounded by the number of emissions; and every page starts with position 0
\* and the title frame alone, whatever page was segmented before it.
C21_PositionNumbering ==
    /\ [](EmissionsNumbered /\ ReturnedPositionsOrdered /\ FirstEmissionFresh)
    /\ [][EntersPage =>
            /\ position' = 0 /\ documents' = <<>> /\ indexedText' = <<>>
            /\ currentHeading' = <<Frame(0, page'.title, Null)>>]_vars

\* The second page of a build, after a page with headings whose emissions 0, 1
\* and 3 were empty: its own emission 0 was empty, its documents have positions
\* 1 and 2 and no heading.
C21_Witness ==
    /\ phase = "pages" /\ pc = "done"
    /\ Len(segmented) = 1
    /\ [k \in 1..Len(segmented[1].returned) |-> segmented[1].returned[k].position] = <<2, 4>>
    /\ segmented[1].returned[2].level = 2
    /\ Len(documents) = 3 /\ documents[1].content = <<>>
    /\ [k \in 1..Len(returned) |-> returned[k].position] = <<1, 2>>
    /\ returned[2].level = 0

\* A step of the walk that visits a node, and the node.
Visiting == pc = "walk" /\ Len(walked') = Len(walked) + 1
Visited == walked'[Len(walked')]

\* The node visited is a comment whose text, trimmed, is more.
VisitingMarker ==
    Visiting /\ Visited.type = "comment" /\ Trim(Visited.data) = MoreText

\* Indexing is active when the walk begins iff the page has an excerpt or
\* indexContent is true, and with indexContent true it is active throughout.
ActiveAtStart ==
    /\ (pc = "walk" /\ walked = <<>>)
       => (shouldIndexContent <=> (page.excerpt # <<>> \/ indexContent))
    /\ (pc \in {"walk", "done"} /\ indexContent) => shouldIndexContent

\* One step within a page: indexing goes off only at the marker on a page with
\* an excerpt and indexContent false, and there it does; once off it stays off
\* and no document is appended, at a heading, a block or the last flush, while a
\* heading still replaces the frames at its level and deeper by its own; with
\* indexContent true the marker changes nothing but the place in the markup.
TruncationStep ==
    /\ (shouldIndexContent /\ ~shouldIndexContent')
       => (VisitingMarker /\ page.excerpt # <<>> /\ ~indexContent)
    /\ (VisitingMarker /\ page.excerpt # <<>> /\ ~indexContent) => ~shouldIndexContent'
    /\ (pc = "walk" /\ ~shouldIndexContent)
       => /\ ~shouldIndexContent'
          /\ documents' = documents
          /\ position' = position
          /\ (Visiting /\ IsHeadingTok(Visited) /\ pc' = "walk")
             => LET L == HeadingLevel(Visited.name)
                IN  currentHeading' =
                      Append(SelectSeq(currentHeading, LAMBDA h : h.level < L),
                             Frame(L, RenderHeader(Visited), Visited.id))
    /\ (VisitingMarker /\ indexContent)
       => UNCHANGED <<shouldIndexContent, documents, position, indexedText, currentHeading>>

Completed == IF pc = "threw" THEN SubSeq(walked, 1, Len(walked) - 1) ELSE walked

\* A heading element or a block element.
IsBoundaryTok(tok) ==
    tok.type = "tag" /\ (tok.name \in HEADING_TAGS \/ tok.name \in CONTENT_BLOCK_TAGS)

\* The place in the markup where indexing went off: the first marker on a page
\* that truncates, else past the end.
CutAt ==
    LET toks  == Completed
        marks == {i \in 1..Len(toks) : IsExcerptMarker(toks[i])}
    IN  IF ExcerptOnly /\ marks # {}
        THEN CHOOSE i \in marks : \A j \in marks : i <= j
        ELSE Len(toks) + 1

\* The headings and blocks visited while indexing was active.
BoundaryIdx ==
    LET toks == Completed
        cut  == CutAt
    IN  IF HasExcerpt \/ indexContent
        THEN {i \in 1..Len(toks) : IsBoundaryTok(toks[i]) /\ i < cut}
        ELSE {}

\* The flush after the traversal was made while indexing was active.
FlushedAtEnd ==
    /\ pc = "done" /\ walked # <<>>
    /\ HasExcerpt \/ indexContent
    /\ CutAt > Len(Completed)

\* Where in the markup the k-th emission was made: at the k-th heading or block,
\* or past the last node for the flush after the traversal.
EmissionAt(at, k) ==
    IF k = 0 THEN 0
    ELSE IF k <= Cardinality(at)
    THEN CHOOSE i \in at : Cardinality({j \in at : j < i}) = k - 1
    ELSE Len(Completed) + 1

\* The text nodes among toks strictly between two places of the markup.
TextBetween(toks, lo, hi) ==
    LET texts == SelectSeq(SubSeq(toks, lo + 1, hi - 1), LAMBDA t : t.type = "text")
    IN  [i \in 1..Len(texts) |-> texts[i].data]

RECURSIVE FramesAfter(_, _)
\* The frames after the n first of the headings hs, from the title frame on.
FramesAfter(hs, n) ==
    IF n = 0 THEN <<Frame(0, page.title, Null)>>
    ELSE Append(SelectSeq(FramesAfter(hs, n - 1),
                          LAMBDA h : h.level < HeadingLevel(hs[n].name)),
                Frame(HeadingLevel(hs[n].name), RenderHeader(hs[n]), hs[n].id))

\* The number of headings among the n first nodes of toks.
HeadingsIn(toks, n) == Cardinality({i \in 1..n : IsHeadingTok(toks[i])})

\* What a document shows of a stack of frames that has one frame per level.
LevelIn(stack) == MaxOf({stack[k].level : k \in 1..Len(stack)})
TextIn(stack, i) ==
    LET at == {k \in 1..Len(stack) : stack[k].level = i}
    IN  IF at = {} THEN Null ELSE OrNull(stack[CHOOSE k \in at : TRUE].text)
AnchorIn(stack) ==
    LET deepest == CHOOSE k \in 1..Len(stack) :
                      stack[k].id # Null /\ \A j \in 1..Len(stack) :
                         stack[j].id # Null => stack[j].level <= stack[k].level
    IN  IF \A k \in 1..Len(stack) : stack[k].id = Null THEN Null
        ELSE OrNull(stack[deepest].id)

\* Document k shows the frames of stack.
ShowsStack(k, stack) ==
    /\ documents[k].level = LevelIn(stack)
    /\ documents[k].anchor = AnchorIn(stack)
    /\ \A i \in 0..6 : documents[k].hierarchy[i] = TextIn(stack, i)

\* The characters of the text of headings in the markups walked.
HeadingChars == {"G", "H", "x"}

\* C23: while indexing is active every heading and every block visited makes
\* exactly one emission, before the heading changes the frames and before the
\* block's children are visited, an inline element makes none, and one more is
\* made after the traversal; the content of each document is made of the text
\* nodes visited since the emission before it, and its level, anchor and
\* hierarchy show the frames in force while those were read: not the heading
\* that ended it, and never a heading's own text.
C23_EmissionBoundaries ==
    pc \in {"walk", "done", "threw"} =>
      LET toks   == Completed
          at     == BoundaryIdx
          hs     == SelectSeq(toks, IsHeadingTok)
          \* the frames in force after each heading: only headings change them
          stacks == [m \in 0..Len(hs) |-> FramesAfter(hs, m)]
      IN
      /\ Len(documents) = Cardinality(at) + (IF FlushedAtEnd THEN 1 ELSE 0)
      /\ Len(emitted) = Len(documents)
      /\ \A k \in 1..Len(documents) :
            LET lo == EmissionAt(at, k - 1)
                hi == EmissionAt(at, k)
            IN  /\ [i \in 1..Len(emitted[k]) |-> emitted[k][i].data]
                     = TextBetween(toks, lo, hi)
                /\ documents[k].content = NormalizeContent(Raw(emitted[k]))
                /\ Range(documents[k].content) \cap HeadingChars = {}
                /\ \A n \in lo..(hi - 1) : ShowsStack(k, stacks[HeadingsIn(toks, n)])
      /\ (pc = "done" /\ documents # <<>>)
         => \A d \in Returned : d = documents[d.position + 1]

\* <h1 id="g">..G..</h1><h2>H</h2><p>A</p><h2 id="c"><code>x</code></h2><p>B</p>:
\* A is under H and not under the heading that follows it, B is under that one.
C23_Witness ==
    /\ pc = "done"
    /\ walked = HeadingExample
    /\ Len(documents) = 6
    /\ Len(returned) = 2
    /\ returned[1].content = A /\ returned[1].hierarchy[2] = <<"H">>
    /\ returned[1].anchor # <<"c">>
    /\ returned[2].content = B /\ returned[2].anchor = <<"c">>

\* The operations of the trace, by name.
TraceOps == [k \in 1..Len(trace) |-> trace[k].op]

\* C24: in one build the remote operations issued are, in full mode, a prefix
\* of deleteAllDocuments, addDocuments(all documents), the insert only after the
\* delete succeeded, and in incremental mode at most the one call
\* updateDocuments(all documents); no operation is issued twice, none after a
\* failure, and the whole list goes in one call.
C24_RemoteCallTrace ==
    /\ phase = "add" => (TraceOps = <<"deleteAllDocuments">> /\ trace[1].ok)
    /\ trace # <<>> =>
          /\ HasDeploy
          /\ Deploy.type = "full"
             => /\ IsPrefix(TraceOps, <<"deleteAllDocuments", "addDocuments">>)
                /\ Len(trace) = 2 => trace[1].ok
          /\ Deploy.type = "incremental" => TraceOps = <<"updateDocuments">>
          /\ \A i, j \in 1..Len(trace) : i # j => trace[i].op # trace[j].op
          /\ \A k \in 1..(Len(trace) - 1) : trace[k].ok
          /\ \A k \in 1..Len(trace) :
                trace[k].op \in {"addDocuments", "updateDocuments"}
                => trace[k].documents = allDocuments
          /\ Len(SelectSeq(trace, LAMBDA c : c.documents # <<>>)) <= 1

\* A full-mode build of two pages: the delete, then one insert of the four
\* documents of both pages.
C24_Witness ==
    /\ phase = "resolved"
    /\ HasDeploy /\ Deploy.type = "full"
    /\ TraceOps = <<"deleteAllDocuments", "addDocuments">>
    /\ Len(segmented) = 2
    /\ Len(allDocuments) = 4
    /\ trace[2].documents = allDocuments

\* C25: no two documents returned for one page have the same objectID.
C25_ObjectIDsDistinct ==
    pc = "done" =>
      \A i, j \in 1..Len(returned) : i # j => returned[i].objectID # returned[j].objectID

\* The levels at which a document has a heading text.
SetLevels(d) == {n \in 0..6 : d.hierarchy[n] # Null}

\* Nothing is set above the level of the document, and the radio table is the
\* hierarchy table on 0..5.
NothingAboveLevel(d) ==
    /\ d.level \in 0..6
    /\ \A n \in 0..6 : n > d.level => d.hierarchy[n] = Null
    /\ \A n \in 0..5 : d.hierarchy_radio[n] = d.hierarchy[n]

\* An emission takes the deepest level among the frames as its level, and for
\* every level the text of the frame of that level, null where the text is empty
\* or no frame has that level.
EmissionLevel ==
    Emitting =>
      /\ LastEmitted.level = MaxOf(Levels)
      /\ \A n \in 0..6 : LastEmitted.hierarchy[n] = TextIn(currentHeading, n)

\* C26 (as stated): in every returned document level is the deepest level among
\* the frames at emission, hierarchy_lvlN is null for N > level, hierarchy_lvl of
\* the level is not null, so that level is the largest N whose hierarchy_lvlN is
\* set, and hierarchy_radio_lvlN is hierarchy_lvlN for N in 0..5.
C26_LevelIsLargestSet ==
    pc = "done" =>
      \A d \in Returned :
         /\ NothingAboveLevel(d)
         /\ d.hierarchy[d.level] # Null
         /\ d.level = MaxOf(SetLevels(d))

\* C26 (amended): level is the deepest level among the frames at emission,
\* hierarchy_lvlN is null for N > level and is the text of the frame of level N
\* otherwise, null when that text is empty: hierarchy_lvl of the level is null
\* for an untitled page at level 0 and under a heading without text of its own,
\* so level is at least every N whose hierarchy_lvlN is set;
\* hierarchy_radio_lvlN is hierarchy_lvlN for N in 0..5.
C26_LevelBoundsHierarchy ==
    /\ [](pc = "done" =>
             \A d \in Returned :
                /\ NothingAboveLevel(d)
                /\ \A n \in SetLevels(d) : n <= d.level)
    /\ [][EmissionLevel]_vars

\* A document returned under a heading without text of its own: level 2, the
\* h1 above it at level 1, nothing at level 2.
C26_Witness ==
    /\ pc = "done"
    /\ \E d \in Returned :
          /\ d.content = B
          /\ d.level = 2
          /\ d.hierarchy[1] = <<"G">>
          /\ d.hierarchy[2] = Null
          /\ d.hierarchy_radio[2] = Null

=============================================================================
